---- MODULE Spec2Model ----
(***************************************************************************)
(* Model of src/websockets-server.js: the Socket.IO presence registry      *)
(* (activeUsers, userSockets, communityMembers, channelMembers,            *)
(* typingUsers), the authentication middleware and the connection,         *)
(* joinCommunity, newPost, direct:message and disconnect handlers.         *)
(*                                                                         *)
(* Every handler is one action; an async handler is cut at its await (the  *)
(* fetch), so its continuation is a second action that may interleave with *)
(* any other event.  Timestamps (lastActive: new Date()) are not modelled. *)
(***************************************************************************)
EXTENDS Integers, Sequences, FiniteSets, TLC

\* ------------------------------------------------------------- bounds
\* Number of socket ids the server hands out (ids are never reused).
MaxSockets == 3
\* Number of persistence calls (fetch) that may be in flight at once.
MaxPending == 2

\* ------------------------------------------------------------- inputs
NULL == "null"
Users == {"u1", "u2"}
Communities == {"c1", "c2"}
Channels == {"ch1", "ch2"}
Posts == {"p1"}
Messages == {"m1"}
\* "" is a missing token, "forged" carries u1's payload with a bad signature,
\* "tokA" carries {id: u1}, "tokB" carries {sub: u2} (no id).
Tokens == {"", "forged", "tokA", "tokB"}
\* What the persistence service can answer to a fetch.
Outcomes == {"saved", "notok", "neterr"}

SocketIds == 1..MaxSockets

\* ------------------------------------------------------------- state
VARIABLES
  nextId,            \* the next fresh socket.id
  conn,              \* sockets with socket.connected = true
  sockets,           \* socket id -> [user: socket.data.user, token: handshake.auth.token]
  rooms,             \* socket id -> rooms joined with socket.join (besides its own id)
  activeUsers,       \* Map userId -> presence record
  userSockets,       \* Map userId -> Set of socket ids
  communityMembers,  \* Map communityId -> Map userId -> snapshot (insertion ordered)
  channelMembers,    \* Map channelId -> Map userId -> snapshot
  typingUsers,       \* Map channelId -> Map userId -> _
  pending,           \* fetch calls in flight, each with its continuation's closure
  out,               \* the events emitted by the last handler, in order
  last,              \* the last handler that ran and its inputs
  joined,            \* history: communities each user joined since their last full disconnect
  watch              \* history: the addressee's open sockets when each pending send started

vars == <<nextId, conn, sockets, rooms, activeUsers, userSockets, communityMembers,
          channelMembers, typingUsers, pending, out, last, joined, watch>>

registry == <<activeUsers, userSockets, communityMembers, channelMembers, typingUsers>>

\* ------------------------------------------------- JavaScript Map (ordered)
\* A Map is a sequence of [k, v] entries in insertion order.
MapHas(m, k) == \E i \in DOMAIN m : m[i].k = k
MapGet(m, k) == m[CHOOSE i \in DOMAIN m : m[i].k = k].v
MapSet(m, k, v) ==
  IF MapHas(m, k)
  THEN [i \in DOMAIN m |-> IF m[i].k = k THEN [k |-> k, v |-> v] ELSE m[i]]
  ELSE Append(m, [k |-> k, v |-> v])
MapDelete(m, k) == SelectSeq(m, LAMBDA e : e.k # k)
MapValues(m) == [i \in DOMAIN m |-> m[i].v]

\* A Map that is never iterated is a function on the keys it holds.
FnSet(f, k, v) == [x \in (DOMAIN f) \cup {k} |-> IF x = k THEN v ELSE f[x]]

\* ------------------------------------------------------------- tokens
\* The tokens signed with NEXTAUTH_SECRET.
SignedTokens == {"tokA", "tokB"}

\* The decoded payload of a token.
jwtPayload(token) ==
  CASE token = "tokA"   -> [id |-> "u1", sub |-> NULL, name |-> "Ann", email |-> "a@x",
                            picture |-> "a.png", image |-> NULL]
    [] token = "forged" -> [id |-> "u1", sub |-> NULL, name |-> "Ann", email |-> "a@x",
                            picture |-> "a.png", image |-> NULL]
    [] token = "tokB"   -> [id |-> NULL, sub |-> "u2", name |-> "Bob", email |-> "b@x",
                            picture |-> NULL, image |-> "b.png"]
    [] OTHER            -> [id |-> NULL, sub |-> NULL, name |-> NULL, email |-> NULL,
                            picture |-> NULL, image |-> NULL]

\* Mutant: jwt.decode in place of jwt.verify (the signature is not checked).
jwtVerify_DecodeOnly(token) == jwtPayload(token).id # NULL \/ jwtPayload(token).sub # NULL
\* jwt.verify(token, secret): the signature check.
jwtVerify(token) == token \in SignedTokens

\* JavaScript a || b on possibly-undefined strings.
Or(a, b) == IF a # NULL THEN a ELSE b

\* The null that verifyToken returns when jwt.verify throws.
NoUser == [id |-> NULL, name |-> NULL, email |-> NULL, image |-> NULL]

verifyToken(token) ==
  IF jwtVerify(token)
  THEN LET decoded == jwtPayload(token)
       IN [id |-> Or(decoded.id, decoded.sub), name |-> decoded.name,
           email |-> decoded.email, image |-> Or(decoded.picture, decoded.image)]
  ELSE NoUser

\* io.use(...): the error the middleware passes to next(), or NULL when it accepts.
AuthMiddleware(token) ==
  IF token = "" THEN "Authentication token required"
  ELSE IF verifyToken(token) = NoUser THEN "Invalid authentication token"
  ELSE NULL

\* ------------------------------------------------------------- events
Ev(name, room, recv, userId, groupId, data, members) ==
  [name |-> name, room |-> room, recv |-> recv, userId |-> userId,
   groupId |-> groupId, data |-> data, members |-> members]

\* io.emit: every connected socket.
AllRecv(c) == c
\* io.to(room): every connected socket that joined the room.
RoomRecv(c, rm, room) == {s \in c : room \in rm[s]}
\* Mutant: io.to(room) in place of socket.to(room), the emitter is not left out.
RoomRecvExcept_All(c, rm, room, s) == RoomRecv(c, rm, room)
\* socket.to(room): the room without the emitting socket.
RoomRecvExcept(c, rm, room, s) == RoomRecv(c, rm, room) \ {s}
\* io.to(socketId): the socket's own room.
SocketRecv(c, s) == {s} \cap c

\* Rooms are <<kind, id>>; AllRoom and OwnRoom name the two scopes that are no room.
AllRoom == <<"all", "*">>
OwnRoom == <<"socket", "*">>
UserRoom(u) == <<"user", u>>
CommunityRoom(c) == <<"community", c>>
ChannelRoom(c) == <<"channel", c>>

Op(op, sock, user, token, arg, res) ==
  [op |-> op, sock |-> sock, user |-> user, token |-> token, arg |-> arg, res |-> res]

\* ------------------------------------------------------------- Init
Init ==
  /\ nextId = 1
  /\ conn = {}
  /\ sockets = [s \in SocketIds |-> [user |-> NoUser, token |-> ""]]
  /\ rooms = [s \in SocketIds |-> {}]
  /\ activeUsers = <<>>
  /\ userSockets = <<>>
  /\ communityMembers = <<>>
  /\ channelMembers = <<>>
  /\ typingUsers = <<>>
  /\ pending = {}
  /\ out = <<>>
  /\ last = Op("init", 0, NULL, "", NULL, NULL)
  /\ joined = [u \in Users |-> {}]
  /\ watch = [sent |-> {}, seen |-> {}]

\* ------------------------------------------------- connection (lines 67-98)
\* The presence record the connection handler stores.
PresenceRecord(user, status, socketId) ==
  [id |-> user.id, name |-> user.name, image |-> user.image,
   status |-> status, socketId |-> socketId]

\* userSockets after `if (!has) set(new Set()); get(userId).add(socket.id)`.
AddSocket(us, userId, s) ==
  FnSet(us, userId, (IF userId \in DOMAIN us THEN us[userId] ELSE {}) \cup {s})

\* Mutant: announce the user only when they had no open socket.
ConnectEvents_FirstOnly(us, c, userId) ==
  IF userId \in DOMAIN us /\ us[userId] # {}
  THEN <<>>
  ELSE <<Ev("user:status", AllRoom, AllRecv(c), userId, NULL, "online", <<>>)>>
\* The events the connection handler emits: io.emit("user:status", online).
ConnectEvents(us, c, userId) ==
  <<Ev("user:status", AllRoom, AllRecv(c), userId, NULL, "online", <<>>)>>

\* How the connecting user stood before: never seen, offline, or already online.
Standing(userId) ==
  IF userId \notin DOMAIN userSockets THEN "first"
  ELSE IF userSockets[userId] = {} THEN "back" ELSE "extra"

Connect(token) ==
  LET err == AuthMiddleware(token) IN
  IF err # NULL
  THEN \* next(new Error(...)): the connection handler never runs
       /\ last' = Op("connect", 0, NULL, token, NULL, err)
       /\ out' = <<>>
       /\ UNCHANGED <<nextId, conn, sockets, rooms, registry, pending, joined>>
  ELSE LET user == verifyToken(token)
           userId == user.id
           s == nextId
       IN /\ nextId <= MaxSockets
          /\ nextId' = nextId + 1
          /\ conn' = conn \cup {s}
          /\ sockets' = [sockets EXCEPT ![s] = [user |-> user, token |-> token]]
          /\ activeUsers' = FnSet(activeUsers, userId, PresenceRecord(user, "online", s))
          /\ userSockets' = AddSocket(userSockets, userId, s)
          /\ rooms' = [rooms EXCEPT ![s] = {UserRoom(userId)}]
          /\ out' = ConnectEvents(userSockets, conn', userId)
          /\ last' = Op("connect", s, userId, token, NULL, Standing(userId))
          /\ UNCHANGED <<communityMembers, channelMembers, typingUsers, pending, joined>>

\* ------------------------------------------------- joinCommunity (lines 101-136)
Snapshot(user) ==
  [id |-> user.id, name |-> user.name, image |-> user.image, status |-> "online"]

\* Mutant: the members are a list that every join pushes to.
JoinMembers_Push(cm, communityId, user) ==
  LET members == IF MapHas(cm, communityId) THEN MapGet(cm, communityId) ELSE <<>>
  IN MapSet(cm, communityId, Append(members, [k |-> user.id, v |-> Snapshot(user)]))
\* communityMembers after `if (!has) set(new Map()); get(communityId).set(userId, ...)`.
JoinMembers(cm, communityId, user) ==
  LET members == IF MapHas(cm, communityId) THEN MapGet(cm, communityId) ELSE <<>>
  IN MapSet(cm, communityId, MapSet(members, user.id, Snapshot(user)))

\* Mutant: only the first value of the Map is sent.
OnlineMembers_First(cm, communityId) ==
  SubSeq(MapValues(MapGet(cm, communityId)), 1, 1)
\* Array.from(communityMembers.get(communityId).values()).
OnlineMembers(cm, communityId) == MapValues(MapGet(cm, communityId))

JoinCommunity(s, communityId) ==
  LET user == sockets[s].user
      room == CommunityRoom(communityId)
  IN /\ s \in conn
     /\ rooms' = [rooms EXCEPT ![s] = @ \cup {room}]
     /\ communityMembers' = JoinMembers(communityMembers, communityId, user)
     /\ out' = <<Ev("community:member:joined", room, RoomRecvExcept(conn, rooms', room, s),
                    user.id, communityId, "online", <<>>),
                 Ev("community:members", OwnRoom, SocketRecv(conn, s), NULL, communityId,
                    NULL, OnlineMembers(communityMembers', communityId))>>
     /\ joined' = [joined EXCEPT ![user.id] = @ \cup {communityId}]
     /\ last' = Op("joinCommunity", s, user.id, sockets[s].token, communityId, NULL)
     /\ UNCHANGED <<nextId, conn, sockets, activeUsers, userSockets, channelMembers,
                    typingUsers, pending>>

\* ------------------------------------------------- newPost (lines 139-156)
\* A fetch in flight, with what its continuation closes over.
Request(kind, s, arg, data) ==
  [kind |-> kind, sock |-> s, token |-> sockets[s].token, arg |-> arg, data |-> data]

\* Mutant: socket.broadcast.emit in place of io.emit, the author is left out.
PostEvents_Broadcast(c, s, post) ==
  <<Ev("newPost", AllRoom, AllRecv(c) \ {s}, NULL, NULL, post, <<>>)>>
\* io.emit("newPost", post).
PostEvents(c, s, post) ==
  <<Ev("newPost", AllRoom, AllRecv(c), NULL, NULL, post, <<>>)>>

\* The handler up to its await: io.emit("newPost", post), then the fetch starts.
NewPost(s, post) ==
  LET r == Request("post", s, NULL, post)
  IN /\ s \in conn
     /\ r \notin pending
     /\ Cardinality(pending) < MaxPending
     /\ out' = PostEvents(conn, s, post)
     /\ pending' = pending \cup {r}
     /\ last' = Op("newPost", s, sockets[s].user.id, r.token, NULL, NULL)
     /\ UNCHANGED <<nextId, conn, sockets, rooms, registry, joined>>

\* The continuation: the result is ignored, a rejected fetch is only logged.
NewPostDone(r, outcome) ==
  /\ r \in pending
  /\ r.kind = "post"
  /\ pending' = pending \ {r}
  /\ out' = <<>>
  /\ last' = Op("newPost:done", r.sock, sockets[r.sock].user.id, r.token, NULL, outcome)
  /\ UNCHANGED <<nextId, conn, sockets, rooms, registry, joined>>

\* ------------------------------------------------- direct:message (lines 159-199)
\* The handler up to `await fetch(...)`.
DirectMessage(s, recipientId, message) ==
  LET r == Request("dm", s, recipientId, message)
  IN /\ s \in conn
     /\ r \notin pending
     /\ Cardinality(pending) < MaxPending
     /\ out' = <<>>
     /\ pending' = pending \cup {r}
     /\ last' = Op("direct:message", s, sockets[s].user.id, r.token, recipientId, NULL)
     /\ UNCHANGED <<nextId, conn, sockets, rooms, registry, joined>>

\* Mutant: the `if (!response.ok) throw` is missing.
ResponseFails_NetOnly(outcome) == outcome = "neterr"
\* Whether the try block throws before delivering: fetch rejected, or !response.ok.
ResponseFails(outcome) == outcome = "neterr" \/ outcome = "notok"

\* The socket ids the saved message is sent to: userSockets.get(recipientId), if any.
SetToSeq(S) ==
  LET n == Cardinality(S)
      f == CHOOSE g \in [1..n -> S] : \A i, j \in 1..n : i < j => g[i] < g[j]
  IN IF S = {} THEN <<>> ELSE f
\* Mutant: one socket per user instead of the whole Set.
DmTargets_One(us, recipientId) ==
  IF recipientId \in DOMAIN us /\ us[recipientId] # {}
  THEN <<CHOOSE s \in us[recipientId] : TRUE>>
  ELSE <<>>
\* Mutant: the recipient's sockets are read before the await, not after it.
DmTargets_AtSend(us, recipientId) ==
  SetToSeq(UNION {w.open : w \in watch.sent})
DmTargets(us, recipientId) ==
  IF recipientId \in DOMAIN us THEN SetToSeq(us[recipientId]) ELSE <<>>

\* Mutant: the confirmation goes to the sender's personal room.
ConfirmRecv_UserRoom(c, rm, s) == RoomRecv(c, rm, UserRoom(sockets[s].user.id))
\* Who receives the confirmation: socket.emit goes to the issuing socket.
ConfirmRecv(c, rm, s) == SocketRecv(c, s)

DmEvents(r, outcome) ==
  IF ResponseFails(outcome)
  THEN <<Ev("error", OwnRoom, SocketRecv(conn, r.sock), NULL, NULL,
            "Failed to send message", <<>>)>>
  ELSE LET targets == DmTargets(userSockets, r.arg)
       IN [i \in DOMAIN targets |->
             Ev("direct:message:new", OwnRoom, SocketRecv(conn, targets[i]), NULL, NULL,
                r.data, <<>>)]
          \o <<Ev("direct:message:sent", OwnRoom, ConfirmRecv(conn, rooms, r.sock), NULL,
                  NULL, r.data, <<>>)>>

\* The continuation after the fetch settles.
DirectMessageDone(r, outcome) ==
  /\ r \in pending
  /\ r.kind = "dm"
  /\ pending' = pending \ {r}
  /\ out' = DmEvents(r, outcome)
  /\ last' = Op("direct:message:done", r.sock, sockets[r.sock].user.id, r.token, r.arg,
                outcome)
  /\ UNCHANGED <<nextId, conn, sockets, rooms, registry, joined>>

\* ------------------------------------------------- disconnect (lines 202-267)
\* Mutant: the socket id is never deleted from the user's Set.
RemoveSocket_Keep(set, s) == set
\* userSockets.get(userId).delete(socket.id).
RemoveSocket(set, s) == set \ {s}

\* Mutant: the size test is off by one (size <= 1).
LastSocketClosed_AtMostOne(set) == Cardinality(set) <= 1
\* Mutant: the size check is missing, every disconnect is taken for the last.
LastSocketClosed_Always(set) == TRUE
\* `userSockets.get(userId).size === 0` after the delete.
LastSocketClosed(set) == Cardinality(set) = 0

\* Mutant: the cascade forgets to delete.
MembersAfterLeave_Keep(m, userId) == m
\* A membership Map of Maps after `if (members.has(userId)) members.delete(userId)`
\* ran over every entry.
MembersAfterLeave(m, userId) ==
  [i \in DOMAIN m |->
     [k |-> m[i].k,
      v |-> IF MapHas(m[i].v, userId) THEN MapDelete(m[i].v, userId) ELSE m[i].v]]

\* Mutant: the `if (members.has(userId))` is missing.
Holding_All(m, userId) == m
\* The entries of a Map of Maps that hold userId, in insertion order.
Holding(m, userId) == SelectSeq(m, LAMBDA e : MapHas(e.v, userId))

\* io.to(`community:${communityId}`).emit("community:member:left", ...) per community left.
CommunityLeftEvents(m, userId, c, rm) ==
  LET hit == Holding(m, userId)
  IN [i \in DOMAIN hit |->
        Ev("community:member:left", CommunityRoom(hit[i].k),
           RoomRecv(c, rm, CommunityRoom(hit[i].k)), userId, hit[i].k, NULL, <<>>)]

\* io.to(`channel:${channelId}`).emit("channel:member:left", ...) per channel left.
ChannelLeftEvents(m, userId, c, rm) ==
  LET hit == Holding(m, userId)
  IN [i \in DOMAIN hit |->
        Ev("channel:member:left", ChannelRoom(hit[i].k),
           RoomRecv(c, rm, ChannelRoom(hit[i].k)), userId, hit[i].k, NULL, <<>>)]

\* Mutant: the loop stops after the first channel it cleans.
TypingStoppedEvents_First(m, userId, c, rm) ==
  LET hit == Holding(m, userId)
  IN IF hit = <<>>
     THEN <<>>
     ELSE <<Ev("channel:typing", ChannelRoom(hit[1].k),
               RoomRecv(c, rm, ChannelRoom(hit[1].k)), userId, hit[1].k, "false", <<>>)>>
\* io.to(`channel:${channelId}`).emit(`channel:${channelId}:typing`, {isTyping: false}).
TypingStoppedEvents(m, userId, c, rm) ==
  LET hit == Holding(m, userId)
  IN [i \in DOMAIN hit |->
        Ev("channel:typing", ChannelRoom(hit[i].k),
           RoomRecv(c, rm, ChannelRoom(hit[i].k)), userId, hit[i].k, "false", <<>>)]

\* Socket.IO has already taken the socket out of its rooms and marked it
\* disconnected when the "disconnect" listener runs.
Disconnect(s) ==
  LET userId == sockets[s].user.id
      c == conn \ {s}
      rm == [rooms EXCEPT ![s] = {}]
      left == IF userId \in DOMAIN userSockets
              THEN RemoveSocket(userSockets[userId], s) ELSE {}
  IN /\ s \in conn
     /\ conn' = c
     /\ rooms' = rm
     /\ last' = Op("disconnect", s, userId, sockets[s].token, NULL,
                   IF Cardinality(left) = 0 THEN "last" ELSE "other")
     /\ IF userId \in DOMAIN userSockets
        THEN /\ userSockets' = [userSockets EXCEPT ![userId] = left]
             /\ IF LastSocketClosed(left)
                THEN /\ activeUsers' =
                          IF userId \in DOMAIN activeUsers
                          THEN [activeUsers EXCEPT ![userId].status = "offline"]
                          ELSE activeUsers
                     /\ communityMembers' = MembersAfterLeave(communityMembers, userId)
                     /\ channelMembers' = MembersAfterLeave(channelMembers, userId)
                     /\ typingUsers' = MembersAfterLeave(typingUsers, userId)
                     /\ out' = <<Ev("user:status", AllRoom, AllRecv(c), userId, NULL,
                                    "offline", <<>>)>>
                               \o CommunityLeftEvents(communityMembers, userId, c, rm)
                               \o ChannelLeftEvents(channelMembers, userId, c, rm)
                               \o TypingStoppedEvents(typingUsers, userId, c, rm)
                     /\ joined' = [joined EXCEPT ![userId] = {}]
                ELSE /\ out' = <<>>
                     /\ UNCHANGED <<activeUsers, communityMembers, channelMembers,
                                    typingUsers, joined>>
        ELSE /\ out' = <<>>
             /\ UNCHANGED <<registry, joined>>
     /\ UNCHANGED <<nextId, sockets, pending>>

\* ------------------------------------------------- setTyping (specification 4.3)
\* The source has no handler that writes typingUsers; this one follows the
\* specification's setTyping(userId, channelId, isTyping): add or remove the
\* user in the channel's typing Map, then emit the boolean to the channel.
Flag(isTyping) == IF isTyping THEN "true" ELSE "false"

TypingAfter(tu, channelId, userId, isTyping) ==
  LET typingMap == IF MapHas(tu, channelId) THEN MapGet(tu, channelId) ELSE <<>>
  IN IF isTyping
     THEN MapSet(tu, channelId, MapSet(typingMap, userId, "typing"))
     ELSE IF MapHas(tu, channelId)
          THEN MapSet(tu, channelId, MapDelete(typingMap, userId))
          ELSE tu

SetTyping(s, channelId, isTyping) ==
  LET userId == sockets[s].user.id
  IN /\ s \in conn
     /\ typingUsers' = TypingAfter(typingUsers, channelId, userId, isTyping)
     /\ out' = <<Ev("channel:typing", ChannelRoom(channelId),
                    RoomRecv(conn, rooms, ChannelRoom(channelId)), userId, channelId,
                    Flag(isTyping), <<>>)>>
     /\ last' = Op("setTyping", s, userId, sockets[s].token, channelId, Flag(isTyping))
     /\ UNCHANGED <<nextId, conn, sockets, rooms, activeUsers, userSockets,
                    communityMembers, channelMembers, pending, joined>>

\* ------------------------------------------------------------- Next
Next ==
  \/ \E token \in Tokens : Connect(token) /\ UNCHANGED watch
  \/ \E s \in SocketIds, communityId \in Communities : JoinCommunity(s, communityId)
       /\ UNCHANGED watch
  \/ \E s \in SocketIds, post \in Posts : NewPost(s, post) /\ UNCHANGED watch
  \/ \E r \in pending, outcome \in Outcomes : NewPostDone(r, outcome)
       /\ UNCHANGED watch
  \/ \E s \in SocketIds, recipientId \in Users, message \in Messages :
        DirectMessage(s, recipientId, message) /\ UNCHANGED watch
  \/ \E r \in pending, outcome \in Outcomes : DirectMessageDone(r, outcome)
       /\ UNCHANGED watch
  \/ \E s \in SocketIds : Disconnect(s) /\ UNCHANGED watch

Spec == Init /\ [][Next]_vars

\* The registry alone: the handlers that write the presence and membership
\* tables.  newPost and direct:message leave every one of them unchanged.
RegistryNext ==
  \/ \E token \in Tokens : Connect(token) /\ UNCHANGED watch
  \/ \E s \in SocketIds, communityId \in Communities : JoinCommunity(s, communityId)
       /\ UNCHANGED watch
  \/ \E s \in SocketIds : Disconnect(s) /\ UNCHANGED watch

RegistrySpec == Init /\ [][RegistryNext]_vars

\* The message relay under connection churn: joinCommunity is left out, it
\* writes only communityMembers and the community rooms, which the relay never reads.
RelayNext ==
  \/ \E token \in Tokens : Connect(token) /\ UNCHANGED watch
  \/ \E s \in SocketIds, post \in Posts : NewPost(s, post) /\ UNCHANGED watch
  \/ \E r \in pending, outcome \in Outcomes : NewPostDone(r, outcome)
       /\ UNCHANGED watch
  \/ \E s \in SocketIds, recipientId \in Users, message \in Messages :
        DirectMessage(s, recipientId, message) /\ UNCHANGED watch
  \/ \E r \in pending, outcome \in Outcomes : DirectMessageDone(r, outcome)
       /\ UNCHANGED watch
  \/ \E s \in SocketIds : Disconnect(s) /\ UNCHANGED watch

RelaySpec == Init /\ [][RelayNext]_vars

\* One direct message at a time under connection churn, with the history of
\* which of the addressee's sockets were open when the send started (sent) and,
\* right after its continuation ran, the same for the send that settled (seen).
Watched(r) == [req |-> r, open |-> {x \in conn : sockets[x].user.id = r.arg}]

InFlightNext ==
  \/ \E token \in Tokens : Connect(token) /\ watch' = [watch EXCEPT !.seen = {}]
  \/ \E s \in SocketIds, recipientId \in Users, message \in Messages :
        /\ pending = {}
        /\ DirectMessage(s, recipientId, message)
        /\ watch' = [sent |-> {Watched(Request("dm", s, recipientId, message))},
                     seen |-> {}]
  \/ \E r \in pending, outcome \in Outcomes :
        /\ DirectMessageDone(r, outcome)
        /\ watch' = [sent |-> {w \in watch.sent : w.req # r},
                     seen |-> UNION {w.open : w \in {x \in watch.sent : x.req = r}}]
  \/ \E s \in SocketIds : Disconnect(s) /\ watch' = [watch EXCEPT !.seen = {}]

InFlightSpec == Init /\ [][InFlightNext]_vars

\* The typing index: connections, typing signals and disconnects.
TypingNext ==
  \/ \E token \in Tokens : Connect(token) /\ UNCHANGED watch
  \/ \E s \in SocketIds, channelId \in Channels, isTyping \in BOOLEAN :
        SetTyping(s, channelId, isTyping) /\ UNCHANGED watch
  \/ \E s \in SocketIds : Disconnect(s) /\ UNCHANGED watch

TypingSpec == Init /\ [][TypingNext]_vars

\* ================================================================ claims
\* The indices of the events of a sequence that carry a name.
Named(seq, name) == {i \in DOMAIN seq : seq[i].name = name}
\* The open handles of a user: the connected sockets that authenticated as them.
OpenHandles(c, u) == {s \in c : sockets[s].user.id = u}
\* Whether userId is listed in the membership Map of group g.
IsMember(m, g, userId) == MapHas(m, g) /\ MapHas(MapGet(m, g), userId)

\* C1: after every connect and disconnect, every user that ever connected has a
\* presence record and a handle set, and the record says "online" exactly when
\* the handle set is not empty.
C1_OnlineIffHandles ==
  /\ DOMAIN activeUsers = DOMAIN userSockets
  /\ \A u \in DOMAIN activeUsers :
       (activeUsers[u].status = "online") <=> (userSockets[u] # {})

\* C1 witness: a user who held several handles has closed the last of them, and
\* it was not the handle they opened last (they closed them out of order).
C1_Witness ==
  /\ last.op = "disconnect"
  /\ last.res = "last"
  /\ activeUsers[last.user].status = "offline"
  /\ activeUsers[last.user].socketId # last.sock

\* C2: a user is listed in a community only while online and only if they joined
\* it since their last full disconnect (so none is listed after a reconnect
\* until they join again); the code has no channel join, so no channel lists anyone.
C2_MembersOnlineAndJoined ==
  /\ \A i \in DOMAIN communityMembers :
       \A j \in DOMAIN communityMembers[i].v :
         LET u == communityMembers[i].v[j].k
         IN /\ u \in DOMAIN activeUsers
            /\ activeUsers[u].status = "online"
            /\ OpenHandles(conn, u) # {}
            /\ communityMembers[i].k \in joined[u]
  /\ \A i \in DOMAIN channelMembers : channelMembers[i].v = <<>>

\* C2 witness: a user is back after a full disconnect, listed nowhere, while a
\* community that exists still lists somebody else.
C2_Witness ==
  /\ last.op = "connect"
  /\ last.res = "back"
  /\ \E i \in DOMAIN communityMembers :
       /\ communityMembers[i].v # <<>>
       /\ ~MapHas(communityMembers[i].v, last.user)

\* C3: the step that closes a user's last open handle takes them out of every
\* community that listed them and emits exactly one community:member:left per
\* such community, to that community's room, and none for any other community.
C3_LeftOncePerGroup ==
  [][(last'.op = "disconnect" /\ conn' # conn /\ OpenHandles(conn', last'.user) = {}) =>
       LET u == last'.user
           lefts == Named(out', "community:member:left")
       IN /\ \A i \in lefts : out'[i].userId = u
          /\ \A g \in Communities :
               LET n == Cardinality({i \in lefts : out'[i].groupId = g})
               IN IF IsMember(communityMembers, g, u)
                  THEN /\ ~IsMember(communityMembers', g, u)
                       /\ n = 1
                       /\ \A i \in lefts :
                            out'[i].groupId = g => out'[i].room = CommunityRoom(g)
                  ELSE n = 0
          /\ \A g \in Communities, w \in Users \ {u} :
               IsMember(communityMembers', g, w) <=> IsMember(communityMembers, g, w)]_vars

\* C3 witness: the last handle of a user listed in two communities has closed
\* and two member-left events went out.
C3_Witness ==
  /\ last.op = "disconnect"
  /\ last.res = "last"
  /\ Cardinality(Named(out, "community:member:left")) = 2
  /\ Len(communityMembers) = 2

\* C4 (as claimed): an accepted connection emits user:status online exactly when
\* the user had no open handle before; an additional handle emits nothing.
C4_OnlineOnlyOnFirstHandle ==
  [][(nextId' # nextId) =>
       LET u == sockets'[nextId].user.id
       IN IF OpenHandles(conn, u) = {}
          THEN Cardinality(Named(out', "user:status")) = 1
          ELSE Cardinality(Named(out', "user:status")) = 0]_vars

\* C4 (amended): every accepted connection emits exactly one user:status online
\* for its user, to all connections, the new one included, whether or not the
\* user already had an open handle.
C4_OnlineOnEveryConnect ==
  [][(nextId' # nextId) =>
       /\ Len(out') = 1
       /\ out'[1].name = "user:status"
       /\ out'[1].data = "online"
       /\ out'[1].userId = sockets'[nextId].user.id
       /\ out'[1].recv = conn'
       /\ nextId \in out'[1].recv]_vars

\* C4 witness: a user who already had an open handle has connected another one
\* and the online event went out again.
C4_Witness ==
  /\ last.op = "connect"
  /\ last.res = "extra"
  /\ Cardinality(OpenHandles(conn, last.user)) >= 2
  /\ Cardinality(Named(out, "user:status")) = 1

\* C5 (as claimed): a post is broadcast only by the step in which its
\* persistence call has returned success; a failed call broadcasts nothing.
C5_BroadcastOnlyAfterPersisted ==
  [][(Named(out', "newPost") # {}) =>
       (last'.op = "newPost:done" /\ last'.res = "saved")]_vars

\* C6: a connection attempt with no token, or with a token that is not signed
\* with the secret, changes none of the five tables, opens no socket and emits
\* no event.
C6_RefusedBeforeMutation ==
  [][(last'.op = "connect" /\ last'.token \notin SignedTokens) =>
       /\ UNCHANGED <<registry, conn, rooms, nextId, sockets>>
       /\ out' = <<>>]_vars

\* C6 witness: a forged token was refused while the registry held users.
C6_Witness ==
  /\ last.op = "connect"
  /\ last.token = "forged"
  /\ last.res = "Invalid authentication token"
  /\ DOMAIN activeUsers # {}
  /\ conn # {}

\* C7: when a direct message is saved, every handle of the recipient that is
\* open at that moment gets direct:message:new exactly once, nothing else gets
\* it (so nothing is delivered when the recipient has no open handle), and
\* exactly one direct:message:sent is emitted.
C7_DeliveredOncePerHandle ==
  [][(last'.op = "direct:message:done" /\ last'.res = "saved" /\ pending' # pending) =>
       LET news == Named(out', "direct:message:new")
           handles == OpenHandles(conn, last'.arg)
       IN /\ \A s \in handles : Cardinality({i \in news : s \in out'[i].recv}) = 1
          /\ \A i \in news : out'[i].recv \subseteq handles /\ out'[i].recv # {}
          /\ Cardinality(news) = Cardinality(handles)
          /\ Cardinality(Named(out', "direct:message:sent")) = 1]_vars

\* C7 witness: a message from one user was saved while the other user had two
\* open handles, and two deliveries went out.
C7_Witness ==
  /\ last.op = "direct:message:done"
  /\ last.res = "saved"
  /\ last.arg # last.user
  /\ Cardinality(OpenHandles(conn, last.arg)) = 2
  /\ Cardinality(Named(out, "direct:message:new")) = 2

\* C8 (as claimed): the sent-confirmation reaches every open handle of the sender.
C8_ConfirmToAllSenderHandles ==
  [][(last'.op = "direct:message:done" /\ last'.res = "saved" /\ pending' # pending) =>
       \A i \in Named(out', "direct:message:sent") :
         out'[i].recv = OpenHandles(conn, last'.user)]_vars

\* C8 (amended): the sent-confirmation is emitted once, to the handle that
\* issued the command and to no other; if that handle has closed meanwhile,
\* nobody receives it.
C8_ConfirmToIssuingHandleOnly ==
  [][(last'.op = "direct:message:done" /\ last'.res = "saved" /\ pending' # pending) =>
       /\ Cardinality(Named(out', "direct:message:sent")) = 1
       /\ \A i \in Named(out', "direct:message:sent") :
            out'[i].recv = {last'.sock} \cap conn]_vars

\* C8 witness: the sender had two open handles when the message was saved and
\* the confirmation went to the issuing one alone.
C8_Witness ==
  /\ last.op = "direct:message:done"
  /\ last.res = "saved"
  /\ Cardinality(OpenHandles(conn, last.user)) = 2
  /\ \E i \in Named(out, "direct:message:sent") : out[i].recv = {last.sock}

\* C9: when the persistence call of a direct message fails (the fetch rejects
\* or the response is not OK), the only event is one error event to the issuing
\* handle: no direct:message:new and no direct:message:sent.
C9_FailureErrorToSenderOnly ==
  [][(last'.op = "direct:message:done" /\ last'.res \in {"notok", "neterr"}
        /\ pending' # pending) =>
       /\ Len(out') = 1
       /\ out'[1].name = "error"
       /\ out'[1].recv = {last'.sock} \cap conn
       /\ Named(out', "direct:message:new") = {}
       /\ Named(out', "direct:message:sent") = {}]_vars

\* C9 witness: a non-OK response came back while the recipient, another user,
\* had an open handle, and the sender's handle got the error.
C9_Witness ==
  /\ last.op = "direct:message:done"
  /\ last.res = "notok"
  /\ last.arg # last.user
  /\ OpenHandles(conn, last.arg) # {}
  /\ Len(out) = 1
  /\ out[1].name = "error"
  /\ out[1].recv = {last.sock}

\* The user ids a membership Map lists, in order.
MemberIds(members) == [i \in DOMAIN members |-> members[i].k]
\* The connected sockets subscribed to a community's room after the step.
Subscribed(c, rm, g) == {x \in c : CommunityRoom(g) \in rm[x]}

\* C11: a join by a user the community already lists (from the same or another
\* of their handles) leaves the listed ids and their number as they were, with
\* one entry for the user, and changes no other community.
C11_RejoinIdempotent ==
  [][(last'.op = "joinCommunity" /\ IsMember(communityMembers, last'.arg, last'.user)) =>
       LET before == MapGet(communityMembers, last'.arg)
           after == MapGet(communityMembers', last'.arg)
       IN /\ Len(after) = Len(before)
          /\ MemberIds(after) = MemberIds(before)
          /\ Cardinality({i \in DOMAIN after : after[i].k = last'.user}) = 1
          /\ Len(communityMembers') = Len(communityMembers)
          /\ \A i \in DOMAIN communityMembers :
               communityMembers[i].k # last'.arg => communityMembers'[i] = communityMembers[i]]_vars

\* C11 witness: a user joined a community that another of their handles had
\* joined before, and the community lists two users.
C11_Witness ==
  /\ last.op = "joinCommunity"
  /\ \E s \in conn \ {last.sock} :
       /\ sockets[s].user.id = last.user
       /\ CommunityRoom(last.arg) \in rooms[s]
  /\ Len(MapGet(communityMembers, last.arg)) = 2

\* C15: closing a handle whose owner keeps another open handle only takes that
\* handle out of the owner's set: the presence record stays online, every
\* membership and typing entry stays, and no event is emitted.
C15_OtherHandleOpenOnlyRemoves ==
  [][(last'.op = "disconnect" /\ conn' # conn /\ OpenHandles(conn', last'.user) # {}) =>
       /\ userSockets' = [userSockets EXCEPT ![last'.user] = @ \ {last'.sock}]
       /\ activeUsers[last'.user].status = "online"
       /\ UNCHANGED <<activeUsers, communityMembers, channelMembers, typingUsers>>
       /\ out' = <<>>]_vars

\* C15 witness: a user listed in a community closed one of two handles and
\* nothing was emitted.
C15_Witness ==
  /\ last.op = "disconnect"
  /\ last.res = "other"
  /\ \E g \in Communities : IsMember(communityMembers, g, last.user)
  /\ activeUsers[last.user].status = "online"
  /\ out = <<>>

C17_MembersListToJoiner ==
  [][(last'.op = "joinCommunity") =>
       LET listed == MapGet(communityMembers', last'.arg)
       IN /\ Cardinality(Named(out', "community:members")) = 1
          /\ \A i \in Named(out', "community:members") :
               LET members == out'[i].members
               IN /\ out'[i].recv = {last'.sock}
                  /\ out'[i].groupId = last'.arg
                  /\ Len(members) = Len(listed)
                  /\ {members[j].id : j \in DOMAIN members} =
                       {listed[j].k : j \in DOMAIN listed}
                  /\ last'.user \in {members[j].id : j \in DOMAIN members}
                  /\ \A j \in DOMAIN members :
                       /\ members[j].status = "online"
                       /\ activeUsers[members[j].id].status = "online"]_vars

\* C17 witness: a join answered with a list of two members.
C17_Witness ==
  /\ last.op = "joinCommunity"
  /\ \E i \in Named(out, "community:members") :
       /\ Len(out[i].members) = 2
       /\ out[i].recv = {last.sock}

\* C19: every open handle is in the handle set of the user it authenticated as
\* and in no other, and no handle set holds a handle that is not open.
C19_HandleInOneSet ==
  /\ \A s \in conn :
       \A u \in DOMAIN userSockets : (s \in userSockets[u]) <=> (u = sockets[s].user.id)
  /\ \A s \in conn : sockets[s].user.id \in DOMAIN userSockets
  /\ \A u \in DOMAIN userSockets : userSockets[u] \subseteq conn

\* C19 witness: one handle has closed while both users hold open handles.
C19_Witness ==
  /\ \E s \in SocketIds : s < nextId /\ s \notin conn
  /\ \A u \in Users : OpenHandles(conn, u) # {}

\* C20 (as claimed): every user a community lists has an open handle subscribed
\* to that community's room.
C20_MemberHasSubscribedHandle ==
  \A i \in DOMAIN communityMembers :
    \A j \in DOMAIN communityMembers[i].v :
      \E s \in OpenHandles(conn, communityMembers[i].v[j].k) :
        CommunityRoom(communityMembers[i].k) \in rooms[s]

\* C13: each newPost command broadcasts the post exactly once, to scope All:
\* every connection open at that moment, the author's included, is a receiver
\* of that one event, and neither the continuation after a successful save nor
\* any other handler emits a newPost event.
C13_OneBroadcastPerPost ==
  [][/\ (last'.op = "newPost") =>
          /\ Len(out') = 1
          /\ out'[1].name = "newPost"
          /\ out'[1].room = AllRoom
          /\ out'[1].data \in Posts
          /\ out'[1].recv = conn
          /\ last'.sock \in out'[1].recv
     /\ (last'.op # "newPost") => Named(out', "newPost") = {}]_vars

\* C13 witness: a post was saved while its author's handle and a handle of
\* another user were open, and the continuation emitted nothing further.
C13_Witness ==
  /\ last.op = "newPost:done"
  /\ last.res = "saved"
  /\ last.sock \in conn
  /\ \E s \in conn : sockets[s].user.id # last.user
  /\ out = <<>>

\* C18: whatever connects or disconnects while the save of a direct message is
\* awaited, its continuation emits the message only to handles open when it
\* runs: a handle of the addressee that closed meanwhile is a receiver of no
\* event, and one that opened meanwhile receives the saved message once.
C18_DeliveryToHandlesOpenAtDelivery ==
  [][(last'.op = "direct:message:done" /\ pending' # pending) =>
       LET news == Named(out', "direct:message:new")
           closed == watch'.seen \ conn
           opened == OpenHandles(conn, last'.arg) \ watch'.seen
       IN /\ \A i \in news : out'[i].recv \subseteq conn
          /\ \A s \in closed : \A i \in DOMAIN out' : s \notin out'[i].recv
          /\ (last'.res = "saved") =>
               \A s \in opened : Cardinality({i \in news : s \in out'[i].recv}) = 1]_vars

\* C18 witness: a message was saved after one handle of the addressee had
\* closed and another had opened during the call, and the new one received it.
C18_Witness ==
  /\ last.op = "direct:message:done"
  /\ last.res = "saved"
  /\ watch.seen \ conn # {}
  /\ \E s \in OpenHandles(conn, last.arg) \ watch.seen :
       \E i \in Named(out, "direct:message:new") : out[i].recv = {s}

\* Every user in a typing Map is online.
TypingOnline ==
  \A i \in DOMAIN typingUsers :
    \A j \in DOMAIN typingUsers[i].v :
      LET u == typingUsers[i].v[j].k
      IN u \in DOMAIN activeUsers /\ activeUsers[u].status = "online"

\* C14: after every step each user in a channel's typing Map is online; and the
\* disconnect of a user's last handle takes the user out of every typing Map and
\* emits, for each channel where they were typing and for no other, exactly one
\* typing event with isTyping false, scoped to that channel's room.
C14_TypingOnlyOnline ==
  [][/\ TypingOnline'
     /\ (last'.op = "disconnect" /\ conn' # conn /\ OpenHandles(conn', last'.user) = {}) =>
          LET stops == Named(out', "channel:typing")
          IN /\ \A ch \in Channels : ~IsMember(typingUsers', ch, last'.user)
             /\ \A ch \in Channels :
                  Cardinality({i \in stops : out'[i].groupId = ch}) =
                    IF IsMember(typingUsers, ch, last'.user) THEN 1 ELSE 0
             /\ \A i \in stops :
                  /\ out'[i].data = "false"
                  /\ out'[i].userId = last'.user
                  /\ out'[i].room = ChannelRoom(out'[i].groupId)]_vars

\* C14 witness: a user typing in both channels closed their last handle, two
\* typing-stopped events went out, and the other user is still typing.
C14_Witness ==
  /\ last.op = "disconnect"
  /\ last.res = "last"
  /\ Cardinality(Named(out, "channel:typing")) = 2
  /\ \E ch \in Channels : \E u \in Users \ {last.user} : IsMember(typingUsers, ch, u)

====
